---- MODULE Spec2Model ----
(***************************************************************************)
(* A state-machine model of src/convert.ts: the command-line entry point   *)
(* (main), the two orchestrators (convertSingleFile, convertDirectory),    *)
(* the document adapter (convertDocument and the DOC pipeline behind it),  *)
(* and the part of the file system they read and change.                   *)
(*                                                                         *)
(* File names are sequences of tokens (<<"a", ".", "doc">> is a.doc), so   *)
(* that path.extname, path.basename and toLowerCase are computed and not   *)
(* assumed.  File contents are sequences of tokens too.                    *)
(***************************************************************************)
EXTENDS Integers, Sequences, FiniteSets, TLC

\* The largest number of entries readdir returns for the input directory.
MaxFiles == 2

VARIABLES
    inputKind,    \* what fs.stat finds at inputPath: file, dir, other, missing
    inputName,    \* basename of inputPath when it is a file
    entries,      \* what readdir(inputDir) returns, in enumeration order
    clearOutput,  \* --clear-output of the running invocation
    run,          \* "first" or "second" invocation of the program
    prev,         \* summary of the first invocation, once the second runs
    parentDir,    \* whether path.dirname(outputPath) exists
    outKind,      \* what is at outputPath: absent, file, dir
    outContent,   \* content of outputPath when it is a file
    outFiles,     \* children of outputPath when it is a directory
    tmpDirs,      \* the input-docx-* directories that exist under os.tmpdir()
    pc,           \* position of the single line of control
    orch,         \* the orchestrator main has invoked
    files,        \* convertDirectory's filtered list (the one input in file mode)
    idx,          \* position of the for-loop in files
    tempDir,      \* the directory mkdtemp returned to the current DOC call
    markdown,     \* the adapter's result awaiting writeFile
    err,          \* the error being thrown, or the last one caught
    exitCode,     \* process.exitCode
    attempted,    \* indices of files for which convertDocument was invoked
    written,      \* indices of files whose writeFile completed
    skipped,      \* indices skipped because the target already exists
    probeFailed,  \* indices whose existence probe failed otherwise
    failed,       \* indices whose conversion or write raised an error
    removed,      \* whether single-file mode deleted outputPath
    fs0           \* the output side of the file system when the run started

vars == <<inputKind, inputName, entries, clearOutput, run, prev, parentDir,
          outKind, outContent, outFiles, tmpDirs, pc, orch, files, idx,
          tempDir, markdown, err, exitCode, attempted, written, skipped,
          probeFailed, failed, removed, fs0>>

inputVars == <<inputKind, inputName, entries>>
runVars == <<clearOutput, run, prev, fs0>>
outVars == <<parentDir, outKind, outContent, outFiles>>
histVars == <<attempted, written, skipped, probeFailed, failed, removed>>

----------------------------------------------------------------------------
\* Names, extensions and contents

Dot == "."

\* The file names the model draws its inputs from.
FileNames ==
    { <<"a", Dot, "docx">>, <<"a", Dot, "doc">>, <<"b", Dot, "DOC">>,
      <<"b", Dot, "PDF">>, <<"c", Dot, "Docx">>, <<"n", Dot, "txt">>,
      <<"README">>, <<Dot, "pdf">> }

DirEntry(n, f) == [name |-> n, isFile |-> f]

\* The directory entries readdir may return: files, and one subdirectory
\* whose name carries a supported extension.
EntryPool ==
    { DirEntry(n, TRUE) : n \in FileNames \ {<<"README">>, <<Dot, "pdf">>} }
        \cup { DirEntry(<<"sub", Dot, "pdf">>, FALSE) }

\* Index of the last "." of a name, 0 when there is none.
LastDot(n) ==
    LET dots == { i \in 1..Len(n) : n[i] = Dot }
    IN  IF dots = {} THEN 0
        ELSE CHOOSE i \in dots : \A j \in dots : j <= i

\* path.extname: from the last "." to the end; empty when there is no "."
\* or when the only "." is the first character of the name.
extname(n) ==
    IF LastDot(n) <= 1 THEN <<>> ELSE SubSeq(n, LastDot(n), Len(n))

\* path.basename(name, ext): the name without the trailing ext.
basename(n, ext) ==
    IF ext # <<>> /\ Len(ext) < Len(n)
          /\ SubSeq(n, Len(n) - Len(ext) + 1, Len(n)) = ext
    THEN SubSeq(n, 1, Len(n) - Len(ext))
    ELSE n

\* String.prototype.toLowerCase on one token.
LowerToken(t) ==
    CASE t = "DOCX" -> "docx"
      [] t = "Docx" -> "docx"
      [] t = "DOC"  -> "doc"
      [] t = "PDF"  -> "pdf"
      [] t = "README" -> "readme"
      [] OTHER -> t

toLowerCase(s) == [i \in 1..Len(s) |-> LowerToken(s[i])]

\* The supported set with one extension too many.
supportedExtensionsWithTxt ==
    { <<Dot, "docx">>, <<Dot, "DOCX">>, <<Dot, "doc">>, <<Dot, "DOC">>,
      <<Dot, "pdf">>, <<Dot, "PDF">>, <<Dot, "txt">> }

supportedExtensions ==
    { <<Dot, "docx">>, <<Dot, "DOCX">>, <<Dot, "doc">>, <<Dot, "DOC">>,
      <<Dot, "pdf">>, <<Dot, "PDF">> }

\* The name of the Markdown file of a directory entry.
mdName(n) == basename(n, extname(n)) \o <<Dot, "md">>

Absent == <<>>
Old == <<"old">>
Partial == <<"partial">>
SubDir == <<"dir">>
Md(n) == <<"md">> \o n

Stale == <<"stale", Dot, "txt">>

\* The names that can occur in the output directory.
OutNames == { mdName(e.name) : e \in EntryPool } \cup { Stale }

EmptyDir == [t \in OutNames |-> Absent]


\* The output side of the file system, as one value.
OutState ==
    [parent |-> parentDir, kind |-> outKind, content |-> outContent,
     files |-> outFiles]

\* The output paths the runs start from.
OutInits ==
    { [parent |-> FALSE, kind |-> "absent", content |-> Absent, files |-> EmptyDir],
      [parent |-> TRUE, kind |-> "absent", content |-> Absent, files |-> EmptyDir],
      [parent |-> TRUE, kind |-> "file", content |-> Old, files |-> EmptyDir],
      [parent |-> TRUE, kind |-> "dir", content |-> Absent, files |-> EmptyDir],
      [parent |-> TRUE, kind |-> "dir", content |-> Absent,
       files |-> [EmptyDir EXCEPT ![<<"a", Dot, "md">>] = Old, ![Stale] = Old]] }

\* The listings readdir may return: distinct entries, in any order.
Listings ==
    { s \in UNION { [1..k -> EntryPool] : k \in 0..MaxFiles } :
        \A i, j \in 1..Len(s) : i # j => s[i] # s[j] }

NoRun == [clear |-> FALSE, clean |-> FALSE, probed |-> FALSE]

Init ==
    /\ inputKind \in {"file", "dir", "other", "missing"}
    /\ inputName \in IF inputKind = "file" THEN FileNames ELSE {<<>>}
    /\ entries \in IF inputKind = "dir" THEN Listings ELSE {<<>>}
    /\ clearOutput \in BOOLEAN
    /\ run = "first"
    /\ prev = NoRun
    /\ \E o \in OutInits :
        /\ parentDir = o.parent
        /\ outKind = o.kind
        /\ outContent = o.content
        /\ outFiles = o.files
        /\ fs0 = o
    /\ tmpDirs = {}
    /\ pc = "main"
    /\ orch = "none"
    /\ files = <<>>
    /\ idx = 0
    /\ tempDir = <<>>
    /\ markdown = <<>>
    /\ err = "none"
    /\ exitCode = 0
    /\ attempted = {}
    /\ written = {}
    /\ skipped = {}
    /\ probeFailed = {}
    /\ failed = {}
    /\ removed = FALSE

----------------------------------------------------------------------------
\* main

\* main without its else branch: whatever is not a file goes to
\* convertDirectory.
DispatchNoElse(kind) ==
    CASE kind = "file" -> "single"
      [] kind = "dir" -> "directory"
      [] kind = "other" -> "directory"
      [] OTHER -> "ENOENT"

\* What main does with the result of fs.stat(inputPath): stat itself throws
\* ENOENT for a missing path; a path that is neither a regular file nor a
\* directory reaches the else branch.
Dispatch(kind) ==
    CASE kind = "file" -> "single"
      [] kind = "dir" -> "directory"
      [] kind = "other" -> "notFileOrDir"
      [] OTHER -> "ENOENT"

MainStat ==
    /\ pc = "main"
    /\ LET d == Dispatch(inputKind)
       IN  IF d \in {"single", "directory"}
           THEN /\ orch' = d
                /\ pc' = IF d = "single" THEN "single" ELSE "dirSetup"
                /\ err' = err
           ELSE /\ err' = d
                /\ pc' = "catchMain"
                /\ orch' = orch
    /\ UNCHANGED <<inputVars, runVars, outVars, histVars, tmpDirs, files, idx,
                   tempDir, markdown, exitCode>>

\* The catch block of main.
CatchMain ==
    /\ pc = "catchMain"
    /\ exitCode' = 1
    /\ pc' = "done"
    /\ UNCHANGED <<inputVars, runVars, outVars, histVars, tmpDirs, orch, files,
                   idx, tempDir, markdown, err>>

----------------------------------------------------------------------------
\* convertSingleFile

\* A catch clause that swallows every error.
RethrownNever(code) == FALSE

\* The catch clause around the probe of outputPath rethrows every error
\* whose code is not ENOENT.
Rethrown(code) == code # "ENOENT"

\* The try block without the skip: an existing file is always removed.
ProbeDecisionNoSkip(kind, clear) ==
    CASE kind = "dir" -> IF Rethrown("none") THEN "conflict" ELSE "convert"
      [] kind = "file" -> "remove"
      [] OTHER -> IF Rethrown("ENOENT") THEN "rethrow" ELSE "convert"

\* The try block around fs.stat(outputPath), by what stat finds.
ProbeDecision(kind, clear) ==
    CASE kind = "dir" -> IF Rethrown("none") THEN "conflict" ELSE "convert"
      [] kind = "file" -> IF clear THEN "remove" ELSE "skip"
      [] OTHER -> IF Rethrown("ENOENT") THEN "rethrow" ELSE "convert"

\* The extension check and the recursive mkdir of the output's parent.
SingleGate ==
    /\ pc = "single"
    /\ IF extname(inputName) \notin supportedExtensions
       THEN /\ err' = "unsupportedInput"
            /\ pc' = "catchMain"
            /\ UNCHANGED <<parentDir, files, idx>>
       ELSE /\ parentDir' = TRUE
            /\ files' = <<DirEntry(inputName, TRUE)>>
            /\ idx' = 1
            /\ pc' = "singleProbe"
            /\ err' = err
    /\ UNCHANGED <<inputVars, runVars, outKind, outContent, outFiles, histVars,
                   tmpDirs, orch, tempDir, markdown, exitCode>>

SingleProbe ==
    /\ pc = "singleProbe"
    /\ LET d == ProbeDecision(outKind, clearOutput)
       IN  /\ pc' = CASE d = "skip" -> "done"
                      [] d \in {"conflict", "rethrow"} -> "catchMain"
                      [] OTHER -> "convert"
           /\ err' = CASE d = "conflict" -> "outputConflict"
                       [] d = "rethrow" -> "ENOENT"
                       [] OTHER -> err
           /\ skipped' = IF d = "skip" THEN {idx} ELSE skipped
           /\ removed' = (d = "remove")
           /\ outKind' = IF d = "remove" THEN "absent" ELSE outKind
           /\ outContent' = IF d = "remove" THEN Absent ELSE outContent
    /\ UNCHANGED <<inputVars, runVars, parentDir, outFiles, tmpDirs, orch,
                   files, idx, tempDir, markdown, exitCode, attempted, written,
                   probeFailed, failed>>


----------------------------------------------------------------------------
\* convertDocument and the DOC pipeline

\* The file the adapter is working on.
Current == files[idx].name

\* The target of the write that follows the adapter.
Target == mdName(Current)

\* The dispatch of convertDocument on the lower-cased extension.
Route(n) ==
    LET ext == toLowerCase(extname(n))
    IN  CASE ext = <<Dot, "docx">> -> "docx"
          [] ext = <<Dot, "doc">> -> "doc"
          [] ext = <<Dot, "pdf">> -> "pdf"
          [] OTHER -> "unsupported"

\* Where a thrown error lands: the per-file catch of convertDirectory or
\* the catch of main.
Landing == IF orch = "directory" THEN "catchFile" ELSE "catchMain"

\* The name mkdtemp gives the directory of this call: unique per call.
FreshTemp == <<run>> \o Current

\* convertDocument up to its first await on an external collaborator:
\* DOCX and PDF are converted (or fail) in the library; DOC creates the
\* temporary directory and goes on to soffice.
ConvertDocument ==
    /\ pc = "convert"
    /\ attempted' = attempted \cup {idx}
    /\ \E ok \in BOOLEAN :
        LET r == Route(Current)
        IN  CASE r = "doc" ->
                   /\ ok
                   /\ tempDir' = FreshTemp
                   /\ tmpDirs' = tmpDirs \cup {FreshTemp}
                   /\ pc' = "soffice"
                   /\ UNCHANGED <<markdown, err>>
              [] r \in {"docx", "pdf"} ->
                   /\ markdown' = IF ok THEN Md(Current) ELSE markdown
                   /\ err' = IF ok THEN err
                             ELSE IF r = "docx" THEN "docxError" ELSE "pdfError"
                   /\ pc' = IF ok THEN "write" ELSE Landing
                   /\ UNCHANGED <<tempDir, tmpDirs>>
              [] OTHER ->
                   /\ ok
                   /\ err' = "unsupportedType"
                   /\ pc' = Landing
                   /\ UNCHANGED <<markdown, tempDir, tmpDirs>>
    /\ UNCHANGED <<inputVars, runVars, outVars, orch, files, idx, exitCode,
                   written, skipped, probeFailed, failed, removed>>

\* How the soffice subprocess can end.
SofficeOutcomes == {"exit0", "exitNonZero", "signal", "spawnError"}

\* runLibreOfficeConversion, awaited by convertDocToDocx: a rejection
\* leaves convertDocToDocx before it has returned the cleanup action.
RunLibreOfficeConversion ==
    /\ pc = "soffice"
    /\ \E o \in SofficeOutcomes :
        /\ pc' = IF o = "exit0" THEN "access" ELSE Landing
        /\ err' = IF o = "exit0" THEN err ELSE o
    /\ UNCHANGED <<inputVars, runVars, outVars, histVars, tmpDirs, orch, files,
                   idx, tempDir, markdown, exitCode>>

\* fs.access(docxPath) in convertDocToDocx: the expected file is there, or
\* access throws ENOENT, again before the cleanup action is returned.
AccessDocx ==
    /\ pc = "access"
    /\ \E present \in BOOLEAN :
        /\ pc' = IF present THEN "docx2md" ELSE Landing
        /\ err' = IF present THEN err ELSE "ENOENT"
    /\ UNCHANGED <<inputVars, runVars, outVars, histVars, tmpDirs, orch, files,
                   idx, tempDir, markdown, exitCode>>

\* The try/finally of convertDocument's DOC branch: the temporary DOCX is
\* converted (or not), and cleanup removes the temporary directory.
ConvertTempDocx ==
    /\ pc = "docx2md"
    /\ tmpDirs' = tmpDirs \ {tempDir}
    /\ \E ok \in BOOLEAN :
        /\ markdown' = IF ok THEN Md(Current) ELSE markdown
        /\ err' = IF ok THEN err ELSE "docxError"
        /\ pc' = IF ok THEN "write" ELSE Landing
    /\ UNCHANGED <<inputVars, runVars, outVars, histVars, orch, files, idx,
                   tempDir, exitCode>>

----------------------------------------------------------------------------
\* fs.writeFile

\* What is at the path writeFile is given.
AtTarget ==
    IF orch = "directory" THEN outFiles[Target]
    ELSE IF outKind = "dir" THEN SubDir
    ELSE outContent

\* How fs.writeFile(path, data) can end: it opens the path with O_TRUNC and
\* then writes; the open can fail (nothing changes), and a write can fail
\* after the open has truncated the file.
WriteOutcomes == IF AtTarget = SubDir THEN {"openError"}
                 ELSE {"ok", "openError", "writeError"}

\* The content of the target after writeFile ended with outcome o.
AfterWrite(o) ==
    CASE o = "ok" -> markdown
      [] o = "writeError" -> Partial
      [] OTHER -> AtTarget

WriteFile ==
    /\ pc = "write"
    /\ \E o \in WriteOutcomes :
        /\ IF orch = "directory"
           THEN /\ outFiles' = [outFiles EXCEPT ![Target] = AfterWrite(o)]
                /\ UNCHANGED <<outKind, outContent>>
           ELSE /\ outKind' = IF AfterWrite(o) = Absent THEN "absent"
                              ELSE IF AfterWrite(o) = SubDir THEN "dir"
                              ELSE "file"
                /\ outContent' = IF AfterWrite(o) = SubDir THEN Absent
                                 ELSE AfterWrite(o)
                /\ UNCHANGED outFiles
        /\ IF o = "ok"
           THEN /\ written' = written \cup {idx}
                /\ pc' = IF orch = "directory" THEN "loop" ELSE "done"
                /\ idx' = IF orch = "directory" THEN idx + 1 ELSE idx
                /\ err' = err
           ELSE /\ err' = "writeError"
                /\ pc' = Landing
                /\ UNCHANGED <<written, idx>>
    /\ UNCHANGED <<inputVars, runVars, parentDir, tmpDirs, orch, files,
                   tempDir, markdown, exitCode, attempted, skipped, probeFailed,
                   failed, removed>>


----------------------------------------------------------------------------
\* convertDirectory

\* The filter of the directory listing.
Eligible(e) == e.isFile /\ extname(e.name) \in supportedExtensions

\* convertDirectory without the removal of the output directory.
RmOutputDirSkipped(clear) ==
    [kind |-> outKind, content |-> outContent, files |-> outFiles]

\* The output path after the optional fs.rm(outputDir, recursive, force):
\* whatever was there is gone; absence is no error.
RmOutputDir(clear) ==
    IF clear
    THEN [kind |-> "absent", content |-> Absent, files |-> EmptyDir]
    ELSE [kind |-> outKind, content |-> outContent, files |-> outFiles]

\* Clearing, the recursive mkdir of outputDir (EEXIST when a regular file
\* is in the way), readdir, the filter and the early return on no files.
DirSetup ==
    /\ pc = "dirSetup"
    /\ LET o == RmOutputDir(clearOutput)
           fl == SelectSeq(entries, Eligible)
       IN  IF o.kind = "file"
           THEN /\ err' = "EEXIST"
                /\ pc' = "catchMain"
                /\ UNCHANGED <<outVars, files, idx>>
           ELSE /\ parentDir' = TRUE
                /\ outKind' = "dir"
                /\ outContent' = Absent
                /\ outFiles' = o.files
                /\ files' = fl
                /\ idx' = 1
                /\ pc' = IF Len(fl) = 0 THEN "done" ELSE "loop"
                /\ err' = err
    /\ UNCHANGED <<inputVars, runVars, histVars, tmpDirs, orch, tempDir,
                   markdown, exitCode>>

\* A probe that never finds the target.
ExistsNever(t) == FALSE

\* Whether fs.access(targetPath) resolves.
Exists(t) == outFiles[t] # Absent

\* The content at a path after fs.rm(path, force) without recursive: a
\* file is removed, absence is no error, a directory stays (the error is
\* swallowed by the catch attached to the call).
AfterRm(c) == IF c = SubDir THEN SubDir ELSE Absent

\* The head of one loop iteration: the probe of the target and the skip
\* (clearOutput off), or the removal of the target (clearOutput on); the
\* loop ends after the last file.
DirLoop ==
    /\ pc = "loop"
    /\ IF idx > Len(files)
       THEN /\ pc' = "done"
            /\ UNCHANGED <<idx, skipped, probeFailed, outFiles>>
       ELSE IF clearOutput
       THEN /\ outFiles' = [outFiles EXCEPT ![Target] = AfterRm(outFiles[Target])]
            /\ pc' = "convert"
            /\ UNCHANGED <<idx, skipped, probeFailed>>
       ELSE \E probeError \in BOOLEAN :
            /\ UNCHANGED outFiles
            /\ IF probeError
               THEN /\ probeFailed' = probeFailed \cup {idx}
                    /\ idx' = idx + 1
                    /\ pc' = "loop"
                    /\ UNCHANGED skipped
               ELSE IF Exists(Target)
               THEN /\ skipped' = skipped \cup {idx}
                    /\ idx' = idx + 1
                    /\ pc' = "loop"
                    /\ UNCHANGED probeFailed
               ELSE /\ pc' = "convert"
                    /\ UNCHANGED <<idx, skipped, probeFailed>>
    /\ UNCHANGED <<inputVars, runVars, parentDir, outKind, outContent, tmpDirs,
                   orch, files, tempDir, markdown, err, exitCode, attempted,
                   written, failed, removed>>

\* A per-file catch that rethrows: the error leaves the loop for main.
CatchFileRethrow ==
    /\ pc = "catchFile"
    /\ pc' = "catchMain"
    /\ failed' = failed \cup {idx}
    /\ UNCHANGED <<inputVars, runVars, outVars, tmpDirs, orch, files, idx,
                   tempDir, markdown, err, exitCode, attempted, written,
                   skipped, probeFailed, removed>>

\* The per-file catch: the error is logged and the loop goes on.
CatchFile ==
    /\ pc = "catchFile"
    /\ failed' = failed \cup {idx}
    /\ idx' = idx + 1
    /\ pc' = "loop"
    /\ err' = "none"
    /\ UNCHANGED <<inputVars, runVars, outVars, tmpDirs, orch, files, tempDir,
                   markdown, exitCode, attempted, written, skipped, probeFailed,
                   removed>>

----------------------------------------------------------------------------
\* The program is run again on the same input, with either flag.

NextRun ==
    /\ pc = "done"
    /\ run = "first"
    /\ run' = "second"
    /\ prev' = [clear |-> clearOutput,
                clean |-> failed = {} /\ probeFailed = {},
                probed |-> probeFailed = {}]
    /\ clearOutput' \in BOOLEAN
    /\ fs0' = OutState
    /\ pc' = "main"
    /\ orch' = "none"
    /\ files' = <<>>
    /\ idx' = 0
    /\ tempDir' = <<>>
    /\ markdown' = <<>>
    /\ err' = "none"
    /\ exitCode' = 0
    /\ attempted' = {}
    /\ written' = {}
    /\ skipped' = {}
    /\ probeFailed' = {}
    /\ failed' = {}
    /\ removed' = FALSE
    /\ UNCHANGED <<inputVars, outVars, tmpDirs>>

Next ==
    \/ MainStat
    \/ CatchMain
    \/ SingleGate
    \/ SingleProbe
    \/ ConvertDocument
    \/ RunLibreOfficeConversion
    \/ AccessDocx
    \/ ConvertTempDocx
    \/ WriteFile
    \/ DirSetup
    \/ DirLoop
    \/ CatchFile
    \/ NextRun

Spec == Init /\ [][Next]_vars


----------------------------------------------------------------------------
\* Properties

\* A convertDocument call on a DOC input is between mkdtemp and its exit.
InDocCall == pc \in {"soffice", "access", "docx2md"}

\* convertDirectory has enumerated the input directory.
Enumerated == orch = "directory" /\ idx >= 1

\* convertDirectory has returned after its pass over the eligible files.
PassDone == Enumerated /\ pc = "done"

\* The extensions the specification lists as supported.
ListedExtensions ==
    { <<Dot, "docx">>, <<Dot, "DOCX">>, <<Dot, "doc">>, <<Dot, "DOC">>,
      <<Dot, "pdf">>, <<Dot, "PDF">> }

Listed(e) == e.isFile /\ extname(e.name) \in ListedExtensions

\* C1 (as claimed): whenever no convertDocument call on a DOC input is in
\* progress, the temporary directory the last such call created does not
\* exist, whichever way the call ended.
C1_TempDirGoneOnEveryExit == ~InDocCall => tempDir \notin tmpDirs

\* C2 (as claimed): when exactly one eligible file raises an error,
\* convertDirectory has attempted every eligible file, has written the
\* Markdown of all the others, and the exit code is 0.
C2_EveryFileAttempted ==
    (PassDone /\ Cardinality(failed) = 1 /\ probeFailed = {})
        => /\ attempted = DOMAIN files
           /\ written = DOMAIN files \ failed
           /\ exitCode = 0

\* C2 (amended): convertDirectory makes a full pass over the eligible
\* files whatever errors single files raise: each file is skipped (its
\* target exists and clearOutput is off), passed over after a failed probe,
\* or attempted; every attempted file that raises no error has its Markdown
\* written to its target path; no per-file error reaches main and the exit
\* code stays 0.  The exit code is 1 only after an error reached the catch
\* of main.
C2_FailureIsolation ==
    /\ Enumerated => /\ pc # "catchMain"
                     /\ exitCode = 0
                     /\ failed \subseteq attempted
                     /\ written \subseteq attempted \ failed
    /\ (Enumerated /\ pc = "loop" /\ (idx - 1) \in written)
          => outFiles[mdName(files[idx - 1].name)] = Md(files[idx - 1].name)
    /\ PassDone => /\ attempted \cup skipped \cup probeFailed = DOMAIN files
                   /\ written = attempted \ failed
    /\ exitCode \in {0, 1}
    /\ exitCode = 1 => pc = "done" /\ err # "none"

C2_Witness ==
    /\ PassDone
    /\ Len(files) = 2
    /\ Cardinality(failed) = 1
    /\ Cardinality(written) = 1
    /\ exitCode = 0

\* The second of two consecutive directory runs without --clear-output.
SecondOfTwo ==
    run = "second" /\ orch = "directory" /\ ~clearOutput /\ ~prev.clear

C4_ClearingSemantics ==
    (orch = "directory" /\ clearOutput)
        => /\ skipped = {} /\ probeFailed = {}
           /\ pc # "catchMain"
           /\ (Enumerated /\ attempted = {})
                 => outKind = "dir" /\ outFiles = EmptyDir
           /\ Enumerated =>
                 \A t \in OutNames :
                    outFiles[t] # Absent =>
                       \E i \in attempted : mdName(files[i].name) = t
           /\ Enumerated => \A i \in DOMAIN files : i < idx => i \in attempted
           /\ pc = "done" => /\ files = SelectSeq(entries, Listed)
                             /\ attempted = DOMAIN files

C4_Witness ==
    /\ orch = "directory" /\ clearOutput /\ pc = "done"
    /\ fs0.kind = "dir"
    /\ fs0.files[Stale] = Old
    /\ fs0.files[<<"a", Dot, "md">>] = Old
    /\ Len(files) = 2
    /\ attempted = {1, 2}
    /\ \E i \in DOMAIN files : mdName(files[i].name) = <<"a", Dot, "md">>
    /\ outFiles[Stale] = Absent


\* convertSingleFile was given an input with a supported extension.
SupportedInput == extname(inputName) \in ListedExtensions

\* C5: single-file mode, supported input, outputPath an existing regular
\* file.  With clearOutput off the call returns successfully (exit code 0,
\* no error) without invoking the adapter, deleting or writing, and the
\* file keeps its content.  With clearOutput on the file is deleted before
\* the adapter is invoked, and the adapter is invoked.
C5_SkipIfExists ==
    (orch = "single" /\ SupportedInput /\ fs0.kind = "file")
        => IF ~clearOutput
           THEN /\ attempted = {} /\ written = {} /\ ~removed
                /\ outKind = "file" /\ outContent = fs0.content
                /\ err = "none" /\ exitCode = 0
                /\ pc \in {"single", "singleProbe", "done"}
                /\ pc = "done" => skipped = {1}
           ELSE /\ skipped = {}
                /\ attempted # {} => removed
                /\ pc = "convert" => removed /\ outKind = "absent"
                /\ pc = "done" => removed /\ attempted = {1}

C5_Witness ==
    /\ orch = "single" /\ SupportedInput /\ ~clearOutput /\ pc = "done"
    /\ fs0.kind = "file" /\ fs0.content = Old
    /\ skipped = {1}
    /\ outContent = Old

C8_NoPartialOutput ==
    /\ outContent # Partial
    /\ \A t \in OutNames : outFiles[t] # Partial

\* C9 (as claimed): an input path that is neither a regular file nor a
\* directory, a missing one included, ends the run with the "--input must
\* point to a file or directory" error, no orchestrator invoked, exit code 1.
C9_AlwaysFileOrDirectoryError ==
    (pc = "done" /\ inputKind \notin {"file", "dir"})
        => err = "notFileOrDir" /\ orch = "none" /\ exitCode = 1

\* C9 (amended): main routes a regular file to convertSingleFile and a
\* directory to convertDirectory.  For a path that exists and is neither,
\* the run fails with the "--input must point to a file or directory"
\* error; for a path that does not exist fs.stat throws and the run fails
\* with that ENOENT error.  In both cases no orchestrator is invoked and the
\* exit code is 1; every error that reaches main ends in exit code 1.
C9_Dispatch ==
    /\ pc # "main" =>
         CASE inputKind = "file" -> orch = "single"
           [] inputKind = "dir" -> orch = "directory"
           [] inputKind = "other" ->
                /\ orch = "none" /\ err = "notFileOrDir"
                /\ pc \in {"catchMain", "done"}
           [] OTHER ->
                /\ orch = "none" /\ err = "ENOENT"
                /\ pc \in {"catchMain", "done"}
    /\ (pc = "done" /\ inputKind \notin {"file", "dir"}) => exitCode = 1
    /\ (pc = "done" /\ err # "none") => exitCode = 1

C9_Witness ==
    /\ pc = "done"
    /\ inputKind = "missing"
    /\ err = "ENOENT"
    /\ orch = "none"
    /\ exitCode = 1

\* The positions in files of the entries that map to target t.
Sharing(t) == { i \in DOMAIN files : mdName(files[i].name) = t }

Min(S) == CHOOSE i \in S : \A j \in S : i <= j
Max(S) == CHOOSE i \in S : \A j \in S : j <= i

====
